---- MODULE Spec2Model ----
(***************************************************************************)
(* A model of the todo store of js/main.js: the TodoManager class with its *)
(* collection of records, the manual order, the two localStorage entries   *)
(* and the observer fan-out.                                               *)
(*                                                                         *)
(* Texts (task, due date, search query) are sequences of one-character     *)
(* strings, so that trim, toLowerCase and includes are computed.  Record   *)
(* ids are the naturals 1, 2, ...: getRandomId concatenates two            *)
(* Math.random strings, and the model takes successive results of the      *)
(* generator to be pairwise different (the n-th id issued is n).  The      *)
(* createdAt/updatedAt stamps are left out: nothing in the store reads     *)
(* them.                                                                   *)
(***************************************************************************)
EXTENDS Integers, Sequences, FiniteSets, TLC

\* ------------------------------------------------------------------ bounds
\* Number of ids the generator issues in one behaviour.
MaxIds == 3
\* Longest id sequence handed to reorderTodos.
MaxOrderLen == 2

\* ---------------------------------------------------------------- constants
\* JavaScript's null (a parent that is not set).
Null == 0
\* An id that getRandomId never issued (a caller-made string).
ForeignId == MaxIds + 1

NoDueDate == <<"N", "o", " ", "d", "u", "e", " ", "d", "a", "t", "e">>

\* What callers pass in.  The n-th addTodo call of a run brings the n-th
\* task text and due date (modulo their number); editTodo brings EditInputs.
TaskInputs == << <<" ", "a">>, <<"B", " ">> >>
DueInputs == << <<>>, <<"d">> >>
EditInputs == {<<"a", " ">>}
Queries == {<<>>, <<"b", " ">>, <<"D">>}
Statuses == {"all", "pending", "completed", "other"}

VARIABLES
    todos,          \* this.todos: the sequence of records
    currentOrder,   \* this.currentOrder: the manual order, a sequence of ids
    storage,        \* localStorage: the entries "todos" and "todoOrder"
    observers,      \* this.observers
    issued,         \* how many ids getRandomId has returned
    notified,       \* what each observer call of the last operation saw
    lastOp          \* the last call served: its name and id argument

vars == <<todos, currentOrder, storage, observers, issued, notified, lastOp>>

\* ------------------------------------------------------------------ strings
RECURSIVE TrimStart(_)
TrimStart(s) ==
    IF s # <<>> /\ Head(s) = " " THEN TrimStart(Tail(s)) ELSE s

RECURSIVE TrimEnd(_)
TrimEnd(s) ==
    IF s # <<>> /\ s[Len(s)] = " " THEN TrimEnd(SubSeq(s, 1, Len(s) - 1)) ELSE s

\* String.prototype.trim
Trim(s) == TrimEnd(TrimStart(s))

LowerChar(c) ==
    CASE c = "B" -> "b"
      [] c = "D" -> "d"
      [] c = "N" -> "n"
      [] OTHER -> c

\* String.prototype.toLowerCase
toLowerCase(s) == [i \in 1..Len(s) |-> LowerChar(s[i])]

\* String.prototype.includes
includes(s, q) ==
    \E i \in 0..(Len(s) - Len(q)) : SubSeq(s, i + 1, i + Len(q)) = q

\* ---------------------------------------------------------------- sequences
\* Array.prototype.indexOf, 1-based; 0 when absent (JavaScript's -1).
indexOf(s, x) ==
    IF \E i \in 1..Len(s) : s[i] = x
    THEN CHOOSE i \in 1..Len(s) : s[i] = x /\ \A j \in 1..(i - 1) : s[j] # x
    ELSE 0

\* this.todos.find((t) => t.id === id): the index of the first match, 0 if none.
find(ts, id) ==
    IF \E i \in 1..Len(ts) : ts[i].id = id
    THEN CHOOSE i \in 1..Len(ts) : ts[i].id = id /\ \A j \in 1..(i - 1) : ts[j].id # id
    ELSE 0

\* ------------------------------------------------------------ TodoFormatter
formatDueDate(dueDate) == IF dueDate = <<>> THEN NoDueDate ELSE dueDate

\* ------------------------------------------------------------- localStorage
\* An entry that was never set (getItem returns null).
Absent == <<>>
JSONstringify(v) == <<v>>
JSONparse(e) == e[1]

\* The store as operators see it: the fields an operation reads and writes.
Machine == [todos |-> todos, currentOrder |-> currentOrder,
            storage |-> storage, notified |-> <<>>]

saveToLocalStorage(m) ==
    [m EXCEPT !.storage.todos = JSONstringify(m.todos)]

saveOrderToLocalStorage(m) ==
    [m EXCEPT !.storage.todoOrder = JSONstringify(m.currentOrder)]

loadFromLocalStorage(st) ==
    LET stored == st.todos
        parsed == IF stored # Absent THEN JSONparse(stored) ELSE <<>>
    IN  [i \in 1..Len(parsed) |->
            [parsed[i] EXCEPT
                !.originalTask = IF @ # <<>> THEN @ ELSE parsed[i].task]]

loadOrderFromLocalStorage(st) ==
    LET order == st.todoOrder
    IN  IF order # Absent THEN JSONparse(order) ELSE <<>>

\* ----------------------------------------------------------------- observers
\* Every observer is handed the event; what it can see at that moment is kept.
notify(m, event, data) ==
    [m EXCEPT !.notified = @ \o
        [i \in 1..Len(observers) |->
            [event |-> event, data |-> data, todos |-> m.todos,
             currentOrder |-> m.currentOrder, storage |-> m.storage]]]

\* ------------------------------------------------------------------- addTodo
getRandomId == issued + 1

NewTodo(id, task, dueDate, parentId) ==
    [id |-> id, task |-> Trim(task), originalTask |-> Trim(task),
     dueDate |-> formatDueDate(dueDate), completed |-> FALSE,
     status |-> "pending", subtasks |-> <<>>, priority |-> 0,
     parent |-> parentId, isExpanded |-> TRUE]

\* addTodo with the push turned round: the parent's id goes on the new record's
\* subtasks.
addTodoReversed(m, id, task, dueDate, parentId) ==
    LET newTodo == NewTodo(id, task, dueDate, parentId)
        pushed == Append(m.todos, newTodo)
        p == find(pushed, parentId)
        attached == IF parentId # Null /\ p # 0
                    THEN [pushed EXCEPT ![Len(pushed)].subtasks = Append(@, parentId)]
                    ELSE pushed
    IN  notify(saveToLocalStorage([m EXCEPT !.todos = attached]),
               "todoAdded", newTodo)

addTodo(m, id, task, dueDate, parentId) ==
    LET newTodo == NewTodo(id, task, dueDate, parentId)
        pushed == Append(m.todos, newTodo)
        p == find(pushed, parentId)
        attached == IF parentId # Null /\ p # 0
                    THEN [pushed EXCEPT ![p].subtasks = Append(@, newTodo.id)]
                    ELSE pushed
    IN  notify(saveToLocalStorage([m EXCEPT !.todos = attached]),
               "todoAdded", newTodo)

\* ------------------------------------------------------------------ editTodo
editTodo(m, id, updatedTask) ==
    LET i == find(m.todos, id)
    IN  IF i # 0
        THEN LET edited == [m.todos EXCEPT ![i].task = Trim(updatedTask),
                                           ![i].originalTask = Trim(updatedTask)]
             IN  notify(saveToLocalStorage([m EXCEPT !.todos = edited]),
                        "todoUpdated", edited[i])
        ELSE m

\* ---------------------------------------------------------------- deleteTodo
\* detachFromParent with the filter's test inverted.
detachFromParentInverted(ts, todo, id) ==
    LET p == find(ts, todo.parent)
    IN  IF todo.parent # Null /\ p # 0
        THEN [ts EXCEPT ![p].subtasks = SelectSeq(@, LAMBDA sid : sid = id)]
        ELSE ts

\* if (todo.parent) { parent.subtasks = parent.subtasks.filter(sid !== id) }
detachFromParent(ts, todo, id) ==
    LET p == find(ts, todo.parent)
    IN  IF todo.parent # Null /\ p # 0
        THEN [ts EXCEPT ![p].subtasks = SelectSeq(@, LAMBDA sid : sid # id)]
        ELSE ts

\* this.todos.filter((t) => t.id !== id)
removeTodo(ts, id) == SelectSeq(ts, LAMBDA t : t.id # id)

\* this.currentOrder.filter((oid) => oid !== id)
removeFromOrder(order, id) == SelectSeq(order, LAMBDA oid : oid # id)

RECURSIVE deleteTodo(_, _)
RECURSIVE deleteSubtasks(_, _)

\* todo.subtasks.forEach((subId) => this.deleteTodo(subId)), over the array as
\* it was when the loop began.
deleteSubtasks(m, subIds) ==
    IF subIds = <<>> THEN m
    ELSE deleteSubtasks(deleteTodo(m, Head(subIds)), Tail(subIds))

deleteTodo(m, id) ==
    LET i == find(m.todos, id)
    IN  IF i = 0 THEN m
        ELSE LET sub == deleteSubtasks(m, m.todos[i].subtasks)
                 todo == sub.todos[find(sub.todos, id)]
                 detached == detachFromParent(sub.todos, todo, id)
                 removed == [sub EXCEPT
                                !.todos = removeTodo(detached, id),
                                !.currentOrder = removeFromOrder(@, id)]
             IN  notify(saveOrderToLocalStorage(saveToLocalStorage(removed)),
                        "todoDeleted", [id |-> id, todo |-> todo])

\* ---------------------------------------------------------- toggleTodoStatus
statusOf(completed) == IF completed THEN "completed" ELSE "pending"

\* updateSubtasks flipping each subtask instead of giving it the record's flag.
RECURSIVE updateSubtasksFlip(_, _, _)
updateSubtasksFlip(ts, subIds, completed) ==
    IF subIds = <<>> THEN ts
    ELSE LET j == find(ts, Head(subIds))
             next == IF j # 0
                     THEN [ts EXCEPT ![j].completed = ~@,
                                     ![j].status = statusOf(~ts[j].completed)]
                     ELSE ts
         IN  updateSubtasksFlip(next, Tail(subIds), completed)

\* todo.subtasks.forEach: every subtask that is found takes the record's flag.
RECURSIVE updateSubtasks(_, _, _)
updateSubtasks(ts, subIds, completed) ==
    IF subIds = <<>> THEN ts
    ELSE LET j == find(ts, Head(subIds))
             next == IF j # 0
                     THEN [ts EXCEPT ![j].completed = completed,
                                     ![j].status = statusOf(completed)]
                     ELSE ts
         IN  updateSubtasks(next, Tail(subIds), completed)

\* allCompleted with some() for every().
allCompletedSome(ts, subIds) ==
    \E k \in 1..Len(subIds) :
        LET j == find(ts, subIds[k]) IN j # 0 /\ ts[j].completed

\* parent.subtasks.every((subId) => this.todos.find(...)?.completed)
allCompleted(ts, subIds) ==
    \A k \in 1..Len(subIds) :
        LET j == find(ts, subIds[k]) IN j # 0 /\ ts[j].completed

updateParent(ts, todo) ==
    LET p == find(ts, todo.parent)
    IN  IF todo.parent # Null /\ p # 0
        THEN LET all == allCompleted(ts, ts[p].subtasks)
             IN  [ts EXCEPT ![p].completed = all, ![p].status = statusOf(all)]
        ELSE ts

toggleTodoStatus(m, id) ==
    LET i == find(m.todos, id)
    IN  IF i = 0 THEN m
        ELSE LET flipped == [m.todos EXCEPT
                                ![i].completed = ~@,
                                ![i].status = statusOf(~m.todos[i].completed)]
                 subs == updateSubtasks(flipped, flipped[i].subtasks,
                                        flipped[i].completed)
                 done == updateParent(subs, subs[i])
             IN  notify(saveToLocalStorage([m EXCEPT !.todos = done]),
                        "todoStatusChanged", done[i])

\* ------------------------------------------------------------ toggleExpanded
\* toggleExpanded without the test for subtasks.
toggleExpandedAny(m, id) ==
    LET i == find(m.todos, id)
    IN  IF i # 0
        THEN LET flipped == [m.todos EXCEPT ![i].isExpanded = ~@]
             IN  notify(saveToLocalStorage([m EXCEPT !.todos = flipped]),
                        "todoExpansionChanged", flipped[i])
        ELSE m

toggleExpanded(m, id) ==
    LET i == find(m.todos, id)
    IN  IF i # 0 /\ Len(m.todos[i].subtasks) > 0
        THEN LET flipped == [m.todos EXCEPT ![i].isExpanded = ~@]
             IN  notify(saveToLocalStorage([m EXCEPT !.todos = flipped]),
                        "todoExpansionChanged", flipped[i])
        ELSE m

\* ------------------------------------------------------------- clearAllTodos
clearAllTodos(m) ==
    LET deletedTodos == m.todos
        cleared == [m EXCEPT !.todos = <<>>, !.currentOrder = <<>>]
    IN  notify(saveOrderToLocalStorage(saveToLocalStorage(cleared)),
               "allTodosCleared", [deletedTodos |-> deletedTodos])

\* -------------------------------------------------------------- reorderTodos
\* reorderTodos calling the observers before it saves.
reorderTodosNotifyFirst(m, newOrder) ==
    saveOrderToLocalStorage(
        notify([m EXCEPT !.currentOrder = newOrder],
               "todosReordered", [newOrder |-> newOrder]))

reorderTodos(m, newOrder) ==
    notify(saveOrderToLocalStorage([m EXCEPT !.currentOrder = newOrder]),
           "todosReordered", [newOrder |-> newOrder])

\* --------------------------------------------------------------- filterTodos
\* A slot of the sparse array `ordered`: empty, or holding one record.
Hole == <<>>

\* const ordered = []: as many empty slots as the order has places.
RECURSIVE emptySlots(_)
emptySlots(n) == IF n = 0 THEN <<>> ELSE Append(emptySlots(n - 1), Hole)

\* todos.forEach: a record whose id is in the order goes to the slot of the
\* id's first position, any other is pushed on `unordered`.
RECURSIVE placeTodos(_, _, _, _)
placeTodos(sel, order, ordered, unordered) ==
    IF sel = <<>> THEN [ordered |-> ordered, unordered |-> unordered]
    ELSE LET todo == Head(sel)
             idx == indexOf(order, todo.id)
         IN  IF idx # 0
             THEN placeTodos(Tail(sel), order,
                             [ordered EXCEPT ![idx] = <<todo>>], unordered)
             ELSE placeTodos(Tail(sel), order, ordered, Append(unordered, todo))

\* ordered.filter(Boolean): the slots that hold a record, in slot order.
RECURSIVE filterBoolean(_)
filterBoolean(ordered) ==
    IF ordered = <<>> THEN <<>>
    ELSE Head(ordered) \o filterBoolean(Tail(ordered))

\* applySortOrder with the two parts concatenated the other way round.
applySortOrderUnorderedFirst(sel, order) ==
    IF Len(order) = 0 THEN sel
    ELSE LET placed == placeTodos(sel, order,
                                  emptySlots(Len(order)), <<>>)
         IN  placed.unordered \o filterBoolean(placed.ordered)

applySortOrder(sel, order) ==
    IF Len(order) = 0 THEN sel
    ELSE LET placed == placeTodos(sel, order,
                                  emptySlots(Len(order)), <<>>)
         IN  filterBoolean(placed.ordered) \o placed.unordered

\* selectByStatus with the break of case "pending" missing: it falls through
\* to case "completed".
selectByStatusFallThrough(ts, status) ==
    CASE status = "all" -> ts
      [] status = "pending" -> SelectSeq(ts, LAMBDA t : t.completed)
      [] status = "completed" -> SelectSeq(ts, LAMBDA t : t.completed)
      [] OTHER -> <<>>

selectByStatus(ts, status) ==
    CASE status = "all" -> ts
      [] status = "pending" -> SelectSeq(ts, LAMBDA t : ~t.completed)
      [] status = "completed" -> SelectSeq(ts, LAMBDA t : t.completed)
      [] OTHER -> <<>>

matchesQuery(t, searchQuery) ==
    LET query == Trim(toLowerCase(searchQuery))
    IN  \/ includes(toLowerCase(t.originalTask), query)
        \/ includes(toLowerCase(t.dueDate), query)

selectByQuery(sel, searchQuery) ==
    IF Trim(searchQuery) # <<>>
    THEN SelectSeq(sel, LAMBDA t : matchesQuery(t, searchQuery))
    ELSE sel

filterTodos(ts, order, status, searchQuery) ==
    applySortOrder(selectByQuery(selectByStatus(ts, status), searchQuery), order)

\* ------------------------------------------------------------------- actions
Serve(m, op, id) ==
    /\ todos' = m.todos
    /\ currentOrder' = m.currentOrder
    /\ storage' = m.storage
    /\ notified' = m.notified
    /\ lastOp' = [op |-> op, id |-> id]

\* The ids a caller passes: those of the records on display, or one of its own.
IdArgs == {todos[i].id : i \in 1..Len(todos)} \cup {ForeignId}

TaskArg == TaskInputs[(issued % Len(TaskInputs)) + 1]
DueArg == DueInputs[(issued % Len(DueInputs)) + 1]

AddTodo(task, dueDate, parentId) ==
    /\ issued < MaxIds
    /\ issued' = issued + 1
    /\ Serve(addTodo(Machine, getRandomId, task, dueDate, parentId),
             "addTodo", parentId)
    /\ UNCHANGED observers

EditTodo(id, updatedTask) ==
    /\ Serve(editTodo(Machine, id, updatedTask), "editTodo", id)
    /\ UNCHANGED <<observers, issued>>

DeleteTodo(id) ==
    /\ Serve(deleteTodo(Machine, id), "deleteTodo", id)
    /\ UNCHANGED <<observers, issued>>

ToggleTodoStatus(id) ==
    /\ Serve(toggleTodoStatus(Machine, id), "toggleTodoStatus", id)
    /\ UNCHANGED <<observers, issued>>

ToggleExpanded(id) ==
    /\ Serve(toggleExpanded(Machine, id), "toggleExpanded", id)
    /\ UNCHANGED <<observers, issued>>

ClearAllTodos ==
    /\ Serve(clearAllTodos(Machine), "clearAllTodos", Null)
    /\ UNCHANGED <<observers, issued>>

OrderArgs ==
    UNION {[1..n -> IdArgs] : n \in 0..MaxOrderLen}

ReorderTodos(newOrder) ==
    /\ Serve(reorderTodos(Machine, newOrder), "reorderTodos", Null)
    /\ UNCHANGED <<observers, issued>>

\* The page is loaded again: the constructors run on what localStorage holds.
Reload ==
    /\ todos' = loadFromLocalStorage(storage)
    /\ currentOrder' = loadOrderFromLocalStorage(storage)
    /\ observers' = <<"uiManager">>
    /\ notified' = <<>>
    /\ lastOp' = [op |-> "constructor", id |-> Null]
    /\ UNCHANGED <<storage, issued>>

Init ==
    /\ storage = [todos |-> Absent, todoOrder |-> Absent]
    /\ todos = loadFromLocalStorage(storage)
    /\ currentOrder = loadOrderFromLocalStorage(storage)
    /\ observers = <<"uiManager">>
    /\ issued = 0
    /\ notified = <<>>
    /\ lastOp = [op |-> "constructor", id |-> Null]

Next ==
    \/ \E parentId \in IdArgs \cup {Null} : AddTodo(TaskArg, DueArg, parentId)
    \/ \E id \in IdArgs, updatedTask \in EditInputs : EditTodo(id, updatedTask)
    \/ \E id \in IdArgs : DeleteTodo(id)
    \/ \E id \in IdArgs : ToggleTodoStatus(id)
    \/ \E id \in IdArgs : ToggleExpanded(id)
    \/ ClearAllTodos
    \/ \E newOrder \in OrderArgs : ReorderTodos(newOrder)
    \/ Reload

Spec == Init /\ [][Next]_vars

\* ---------------------------------------------------------------- properties
IdsOf(ts) == {ts[i].id : i \in 1..Len(ts)}
SubtaskIds(t) == {t.subtasks[k] : k \in 1..Len(t.subtasks)}
Records(ts) == {ts[i] : i \in 1..Len(ts)}
RecordOf(ts, id) == CHOOSE t \in Records(ts) : t.id = id

\* The ids reached from id through subtasks lists.
RECURSIVE Descendants(_, _)
Descendants(ts, id) ==
    IF id \notin IdsOf(ts) THEN {}
    ELSE LET subs == SubtaskIds(RecordOf(ts, id))
         IN  subs \cup UNION {Descendants(ts, sub) : sub \in subs}

\* C1: parent links and subtasks lists agree: a record c names p as its parent
\* exactly when c's id is in p's subtasks, and every parent that is set is a
\* record of the collection.
ParentLinksConsistent ==
    /\ \A c \in Records(todos), p \in Records(todos) :
          (c.parent = p.id) <=> (c.id \in SubtaskIds(p))
    /\ \A c \in Records(todos) : c.parent # Null => c.parent \in IdsOf(todos)

\* C2: deleteTodo(id) of an existing record removes it and every descendant
\* and nothing else, and leaves none of their ids in a subtasks list or in
\* the manual order.
DeleteRemovesDescendants ==
    [][(lastOp'.op = "deleteTodo" /\ lastOp'.id \in IdsOf(todos)) =>
          LET gone == Descendants(todos, lastOp'.id) \cup {lastOp'.id}
          IN  /\ IdsOf(todos') = IdsOf(todos) \ gone
              /\ Len(todos') = Len(todos) - Cardinality(gone)
              /\ \A t \in Records(todos') : SubtaskIds(t) \cap gone = {}
              /\ \A k \in 1..Len(currentOrder') : currentOrder'[k] \notin gone]_vars

\* A cascade has run (the record deleted had a subtask) and a record is left.
DeleteCascadeWitness ==
    /\ lastOp.op = "deleteTodo"
    /\ Len(notified) >= 2
    /\ todos # <<>>

\* C4: after toggleTodoStatus(id) of a record whose parent is in the
\* collection, the parent is completed exactly when every record listed in
\* its subtasks is, and its status label says the same.
ToggleRecomputesParent ==
    [][(/\ lastOp'.op = "toggleTodoStatus"
        /\ lastOp'.id \in IdsOf(todos)
        /\ RecordOf(todos, lastOp'.id).parent \in IdsOf(todos)) =>
          LET parent == RecordOf(todos', RecordOf(todos, lastOp'.id).parent)
              all == \A t \in Records(todos') :
                        t.id \in SubtaskIds(parent) => t.completed
          IN  /\ parent.completed = all
              /\ (parent.status = "completed") <=> all]_vars

\* A subtask was toggled whose parent has two subtasks that are both completed,
\* so the parent is completed too.
ToggleParentWitness ==
    /\ lastOp.op = "toggleTodoStatus"
    /\ lastOp.id \in IdsOf(todos)
    /\ LET todo == RecordOf(todos, lastOp.id)
       IN  /\ todo.parent \in IdsOf(todos)
           /\ Len(RecordOf(todos, todo.parent).subtasks) >= 2
           /\ RecordOf(todos, todo.parent).completed

\* C5: toggleTodoStatus(id) of an existing record negates its completed flag
\* and gives every record listed in its subtasks the new value.
ToggleSetsSubtasks ==
    [][(lastOp'.op = "toggleTodoStatus" /\ lastOp'.id \in IdsOf(todos)) =>
          LET old == RecordOf(todos, lastOp'.id)
              new == RecordOf(todos', lastOp'.id)
          IN  /\ new.completed = ~old.completed
              /\ \A t \in Records(todos') :
                    t.id \in SubtaskIds(new) => t.completed = new.completed]_vars

\* A record with two subtasks was toggled back to pending.
ToggleSubtasksWitness ==
    /\ lastOp.op = "toggleTodoStatus"
    /\ lastOp.id \in IdsOf(todos)
    /\ Len(RecordOf(todos, lastOp.id).subtasks) >= 2
    /\ ~RecordOf(todos, lastOp.id).completed
    /\ issued = MaxIds

\* C6: whenever an observer is called, what localStorage holds is the
\* collection and the manual order the store has in memory.
ObserversSeeStoredState ==
    \A k \in 1..Len(notified) :
        /\ loadFromLocalStorage(notified[k].storage) = notified[k].todos
        /\ loadOrderFromLocalStorage(notified[k].storage) = notified[k].currentOrder

\* The observer was called for the nested deletion of a subtask that was in the
\* manual order, while its parent was still in the collection.
NestedDeletionWitness ==
    /\ Len(notified) >= 2
    /\ notified[1].event = "todoDeleted"
    /\ notified[1].todos # <<>>
    /\ notified[1].data.todo.parent \in IdsOf(notified[1].todos)
    /\ notified[1].storage.todoOrder # Absent

\* The place of a record in the collection, and of an id in the manual order
\* (its first occurrence).
PlaceIn(ts, t) == CHOOSE i \in 1..Len(ts) : ts[i] = t
FirstIn(order, id) ==
    CHOOSE i \in 1..Len(order) :
        order[i] = id /\ \A j \in 1..Len(order) : order[j] = id => i <= j
InOrder(order, id) == \E i \in 1..Len(order) : order[i] = id

ComesBefore(a, b) ==
    \/ /\ InOrder(currentOrder, a.id)
       /\ InOrder(currentOrder, b.id)
       /\ FirstIn(currentOrder, a.id) < FirstIn(currentOrder, b.id)
    \/ InOrder(currentOrder, a.id) /\ ~InOrder(currentOrder, b.id)
    \/ /\ ~InOrder(currentOrder, a.id)
       /\ ~InOrder(currentOrder, b.id)
       /\ PlaceIn(todos, a) < PlaceIn(todos, b)

\* C7: filterTodos returns the selected records, those whose id is in the manual
\* order first, by their places in it, then the others in collection order;
\* with an empty manual order it returns the selection as it is.
ManualOrderPlacement ==
    \A status \in Statuses, searchQuery \in Queries :
        LET sel == selectByQuery(selectByStatus(todos, status), searchQuery)
            res == filterTodos(todos, currentOrder, status, searchQuery)
        IN  /\ Len(res) = Len(sel)
            /\ Records(res) = Records(sel)
            /\ currentOrder = <<>> => res = sel
            /\ currentOrder # <<>> =>
                  \A i \in 1..Len(res), j \in 1..Len(res) :
                      i < j => ComesBefore(res[i], res[j])

\* reorderTodos was given an id of no record and, after it, the id of the last
\* record; the records before it are not in the order.
ReorderWitness ==
    /\ lastOp.op = "reorderTodos"
    /\ Len(todos) = MaxIds
    /\ currentOrder = <<ForeignId, todos[Len(todos)].id>>
    /\ filterTodos(todos, currentOrder, "all", <<>>)[1] = todos[Len(todos)]

\* C8: with no search query, "all" gives every record once, "completed" the
\* completed records and "pending" the others, each once.
FilterByStatusPartition ==
    LET all == filterTodos(todos, currentOrder, "all", <<>>)
        completed == filterTodos(todos, currentOrder, "completed", <<>>)
        pending == filterTodos(todos, currentOrder, "pending", <<>>)
    IN  /\ Len(all) = Len(todos)
        /\ Records(all) = Records(todos)
        /\ Records(completed) = {t \in Records(todos) : t.completed}
        /\ Len(completed) = Cardinality(Records(completed))
        /\ Records(pending) = {t \in Records(todos) : ~t.completed}
        /\ Len(pending) = Cardinality(Records(pending))
        /\ Records(completed) \cap Records(pending) = {}
        /\ Records(completed) \cup Records(pending) = Records(todos)

\* The manual order names one record twice, and the collection holds completed
\* and pending records.
FilterWitness ==
    /\ Len(currentOrder) = 2
    /\ currentOrder[1] = currentOrder[2]
    /\ currentOrder[1] \in IdsOf(todos)
    /\ \E a \in Records(todos), b \in Records(todos) : a.completed /\ ~b.completed

\* C9: editTodo, deleteTodo, toggleTodoStatus and toggleExpanded on an id of no
\* record, and toggleExpanded on a record without subtasks, change neither the
\* collection, the manual order nor localStorage, and call no observer.
UnknownIdsIgnored ==
    [][(\/ /\ lastOp'.op \in {"editTodo", "deleteTodo", "toggleTodoStatus",
                              "toggleExpanded"}
           /\ lastOp'.id \notin IdsOf(todos)
        \/ /\ lastOp'.op = "toggleExpanded"
           /\ lastOp'.id \in IdsOf(todos)
           /\ RecordOf(todos, lastOp'.id).subtasks = <<>>) =>
          /\ UNCHANGED <<todos, currentOrder, storage>>
          /\ notified' = <<>>]_vars

\* toggleExpanded was called on a record without subtasks.
IgnoredCallWitness ==
    /\ lastOp.op = "toggleExpanded"
    /\ lastOp.id \in IdsOf(todos)
    /\ RecordOf(todos, lastOp.id).subtasks = <<>>
    /\ notified = <<>>

\* C10: no record that has a parent has subtasks.
OneLevelNesting ==
    \A t \in Records(todos) : t.parent # Null => t.subtasks = <<>>

\* C10, as amended: a step leaves nesting one level deep unless it is an addTodo
\* whose parentId is the id of a record that itself has a parent.
NestingOnlyByAddToSubtask ==
    [][(/\ OneLevelNesting
        /\ ~(/\ lastOp'.op = "addTodo"
             /\ lastOp'.id \in IdsOf(todos)
             /\ RecordOf(todos, lastOp'.id).parent # Null)) =>
          OneLevelNesting']_vars

\* addTodo gave a second subtask to a record without a parent.
SubtaskAddedWitness ==
    /\ lastOp.op = "addTodo"
    /\ lastOp.id \in IdsOf(todos)
    /\ RecordOf(todos, lastOp.id).parent = Null
    /\ Len(RecordOf(todos, lastOp.id).subtasks) >= 2
    /\ OneLevelNesting

====
